---- MODULE Spec2Model ----
(***************************************************************************)
(* A model of src/core/environment.ts: the Entity state machine, the       *)
(* Board's tick algorithm (promotion, purge, deepest-first traversal),     *)
(* the deferred spawn/delete queues, the depth-indexed instance registry   *)
(* and the group bookkeeping.                                              *)
(*                                                                         *)
(* Entities are numbered: 0 is the Board itself (the root script), 1..nEnt *)
(* are the entities created by spawnObject, in creation order.  Scripts    *)
(* are inputs: a unit of work (one Executor.step() call) is a bounded      *)
(* sequence of calls of the Board/Entity interface followed by the         *)
(* executor's answer (more work / exhausted).                              *)
(***************************************************************************)
EXTENDS Integers, Sequences, FiniteSets, TLC

\* ------------------------------------------------------------------ bounds
MaxEnt == 5       \* entity ids are 0..MaxEnt (0 is the Board)
MaxTickEnt == 1   \* entities spawned in the scripted specification
MaxDeleted == 2   \* length of deletedObjs between two tick boundaries
MaxUnits == 2     \* units of work in one execute() call
MaxCmds == 2      \* interface calls a script makes in one unit of work
MaxArg == 0       \* jump arguments are 0..MaxArg
MaxGroupEnt == 1  \* entities spawned in the group specification
MaxGroupLen == 3  \* length of an entity's groups list
MaxScript == 3    \* scripts are numbered 1..MaxScript
MaxAdopt == 2     \* adoptions attached over a run, and handles 1..MaxAdopt

Ids == 0..MaxEnt
Board == 0
Null == -1
BoardName == "_board"
ObjectNames == {"a", "b"}          \* the prototypes registered by setup
UnknownName == "zz"                \* a name setup registers no prototype under
AllNames == ObjectNames \cup {UnknownName}
NoScript == 0                      \* objects[name] is undefined
Scripts == 1..MaxScript
Handles == 1..MaxAdopt
Labels == {"init", "go"}           \* the labels every script has enabled
UnknownLabel == "nolabel"
GroupNames == {"g", "h"}
Args == 0..MaxArg
NoJump == [label |-> "null", args |-> 0]

VARIABLES
    \* Entity fields, by entity id
    nEnt, name, depth, parent, ended, cycleEnded, locked, pendingJumpOp,
    executor, groups, adoptions, script,
    \* the handles whose release was invoked, in order of invocation
    released,
    \* Board fields
    instances, spawnedObjs, deletedObjs, groupStore, terminated, objects,
    \* where control is: idle (between host calls), trav (in Board.step's
    \* traversal, between two execute() calls), unit (inside Executor.step())
    pc, cursor, nunit, ncmd,
    \* observations
    finishCount, execLog, promoted, lastCall, termAt

entVars == <<nEnt, name, depth, parent, ended, cycleEnded, locked,
             pendingJumpOp, executor, groups, adoptions, script, released>>
boardVars == <<instances, spawnedObjs, deletedObjs, groupStore, terminated,
               objects>>
ctlVars == <<pc, cursor, nunit, ncmd>>
obsVars == <<finishCount, execLog, promoted, lastCall, termAt>>
vars == <<entVars, boardVars, ctlVars, obsVars>>

\* The program state as one record, so that handlers compose.
St ==
    [nEnt |-> nEnt, name |-> name, depth |-> depth, parent |-> parent,
     ended |-> ended, cycleEnded |-> cycleEnded, locked |-> locked,
     pendingJumpOp |-> pendingJumpOp, executor |-> executor,
     groups |-> groups, adoptions |-> adoptions, instances |-> instances,
     spawnedObjs |-> spawnedObjs, deletedObjs |-> deletedObjs,
     groupStore |-> groupStore, terminated |-> terminated,
     script |-> script, released |-> released, objects |-> objects]

Becomes(s) ==
    /\ nEnt' = s.nEnt /\ name' = s.name /\ depth' = s.depth
    /\ parent' = s.parent /\ ended' = s.ended /\ cycleEnded' = s.cycleEnded
    /\ locked' = s.locked /\ pendingJumpOp' = s.pendingJumpOp
    /\ executor' = s.executor /\ groups' = s.groups
    /\ adoptions' = s.adoptions /\ instances' = s.instances
    /\ spawnedObjs' = s.spawnedObjs /\ deletedObjs' = s.deletedObjs
    /\ groupStore' = s.groupStore /\ terminated' = s.terminated
    /\ script' = s.script /\ released' = s.released /\ objects' = s.objects

\* ------------------------------------------------------- array helpers
\* Array.prototype.indexOf, 0-based, -1 when absent.
IndexOf(seq, x) ==
    IF \E i \in 1..Len(seq) : seq[i] = x
    THEN (CHOOSE i \in 1..Len(seq) :
              seq[i] = x /\ \A j \in 1..(i - 1) : seq[j] # x) - 1
    ELSE -1

\* Array.prototype.splice(start, 1): a negative start counts from the end.
Splice1(seq, start) ==
    LET n == Len(seq)
        from == IF start < 0
                THEN (IF n + start < 0 THEN 0 ELSE n + start)
                ELSE (IF start > n THEN n ELSE start)
    IN  SubSeq(seq, 1, from) \o SubSeq(seq, from + 2, n)

Contains(seq, x) == \E i \in 1..Len(seq) : seq[i] = x

RECURSIVE Filter(_, _, _)
\* The elements of seq whose parent is e, in order.
Filter(s, seq, e) ==
    IF seq = <<>> THEN <<>>
    ELSE (IF s.parent[Head(seq)] = e THEN <<Head(seq)>> ELSE <<>>)
             \o Filter(s, Tail(seq), e)

RECURSIVE Flatten(_)
\* The entities of one level, bucket after bucket.
Flatten(level) ==
    IF level = <<>> THEN <<>> ELSE Head(level).objs \o Flatten(Tail(level))

\* ------------------------------------------------------------- Entity
JumpOp(label, args) == [label |-> label, args |-> args]

\* executor.labelStore.hasEnabled(labelName)
HasEnabled(s, e, label) == label \in Labels

GotoLabelNoLockCheck(s, e, label, args) ==
    IF ~HasEnabled(s, e, label) THEN s
    ELSE [s EXCEPT !.pendingJumpOp[e] = JumpOp(label, args),
                   !.ended[e] = FALSE, !.cycleEnded[e] = FALSE]

GotoLabelFirstWins(s, e, label, args) ==
    IF s.locked[e] \/ ~HasEnabled(s, e, label) THEN s
    ELSE [s EXCEPT !.pendingJumpOp[e] =
                       IF @ # NoJump THEN @ ELSE JumpOp(label, args),
                   !.ended[e] = FALSE, !.cycleEnded[e] = FALSE]

GotoLabelNoLabelCheck(s, e, label, args) ==
    IF s.locked[e] THEN s
    ELSE [s EXCEPT !.pendingJumpOp[e] = JumpOp(label, args),
                   !.ended[e] = FALSE, !.cycleEnded[e] = FALSE]

GotoLabel(s, e, label, args) ==
    IF s.locked[e] \/ ~HasEnabled(s, e, label) THEN s
    ELSE [s EXCEPT !.pendingJumpOp[e] = JumpOp(label, args),
                   !.ended[e] = FALSE, !.cycleEnded[e] = FALSE]

Begin(s, e, initArgs) ==
    GotoLabel([s EXCEPT !.cycleEnded[e] = FALSE], e, "init", initArgs)

\* executor.execJumpOp(pendingJumpOp); pendingJumpOp = null
ExecPendingJump(s, e) ==
    IF s.pendingJumpOp[e] # NoJump
    THEN [s EXCEPT !.executor[e] = s.pendingJumpOp[e],
                   !.pendingJumpOp[e] = NoJump]
    ELSE s

ExecuteHeadNoEndedCheck(s, e) ==
    ExecPendingJump([s EXCEPT !.cycleEnded[e] = FALSE], e)

ExecuteHeadNoJump(s, e) == [s EXCEPT !.cycleEnded[e] = FALSE]

\* execute() up to the loop: lines 74-84
ExecuteHead(s, e) ==
    LET s1 == [s EXCEPT !.cycleEnded[e] = FALSE]
    IN  IF s.ended[e] THEN s1 ELSE ExecPendingJump(s1, e)

DestroyAdoptions(s, e) ==
    [s EXCEPT !.released = @ \o s.adoptions[e], !.adoptions[e] = <<>>]

\* -------------------------------------------------------------- groups
HasGroup(s, g) == g \in DOMAIN s.groupStore

DefineGroup(s, g) ==
    IF HasGroup(s, g) THEN s
    ELSE [s EXCEPT !.groupStore =
              [x \in (DOMAIN s.groupStore) \cup {g} |->
                  IF x = g THEN <<>> ELSE s.groupStore[x]]]

\* Group.addEntity / Group.removeEntity: an ordered set of members
AddEntity(members, e) ==
    IF Contains(members, e) THEN members ELSE Append(members, e)

RemoveEntity(members, e) ==
    IF Contains(members, e) THEN Splice1(members, IndexOf(members, e))
    ELSE members

AddObjectToGroup(s, g, e) ==
    IF ~HasGroup(s, g) THEN s
    ELSE [s EXCEPT !.groupStore[g] = AddEntity(@, e),
                   !.groups[e] = Append(@, g)]

RemoveObjectFromGroup(s, g, e) ==
    IF ~HasGroup(s, g) THEN s
    ELSE [s EXCEPT !.groupStore[g] = RemoveEntity(@, e),
                   !.groups[e] = Splice1(@, IndexOf(@, g))]

RECURSIVE RemoveFromAllLoop(_, _, _)
\* for (let i = entity.groups.length - 1; i >= 0; i--)
RemoveFromAllLoop(s, e, i) ==
    IF i < 0 THEN s
    ELSE RemoveFromAllLoop(RemoveObjectFromGroup(s, s.groups[e][i + 1], e),
                           e, i - 1)

RemoveObjectFromAllGroups(s, e) ==
    RemoveFromAllLoop(s, e, Len(s.groups[e]) - 1)

\* ------------------------------------------------- structural mutation
GetChildObjects(s, e) ==
    IF s.depth[e] + 1 >= Len(s.instances) THEN <<>>
    ELSE Filter(s, Flatten(s.instances[s.depth[e] + 2]), e)
             \o Filter(s, s.spawnedObjs, e)

\* spawnObject with a registered name; the new entity is s.nEnt + 1
SpawnObject(s, nm, par, initArgs) ==
    LET obj == s.nEnt + 1
        grown == IF par # Null /\ Len(s.instances) <= s.depth[par] + 1
                 THEN Append(s.instances, <<>>) ELSE s.instances
        s1 == [s EXCEPT !.nEnt = obj, !.instances = grown,
                        !.name[obj] = nm,
                        !.script[obj] = s.objects[nm],
                        !.depth[obj] = IF par # Null THEN s.depth[par] + 1
                                       ELSE 0,
                        !.parent[obj] = IF par # Null THEN par ELSE obj,
                        !.executor[obj] = NoJump]
    IN  [Begin(s1, obj, initArgs) EXCEPT !.spawnedObjs = Append(@, obj)]

RemoveOneNoDestroy(s, e) ==
    LET s1 == [s EXCEPT !.locked[e] = TRUE, !.ended[e] = TRUE,
                        !.cycleEnded[e] = TRUE]
    IN  [RemoveObjectFromAllGroups(s1, e) EXCEPT
             !.deletedObjs = Append(@, e)]

\* the body of removeObject after the recursive sweep
RemoveOne(s, e) ==
    LET s1 == [s EXCEPT !.locked[e] = TRUE, !.ended[e] = TRUE,
                        !.cycleEnded[e] = TRUE]
        s2 == RemoveObjectFromAllGroups(DestroyAdoptions(s1, e), e)
    IN  [s2 EXCEPT !.deletedObjs = Append(@, e)]

RECURSIVE RemoveEach(_, _)
\* for (let child of this.getChildObjects(entity)) this.removeObject(child)
RemoveEach(s, kids) ==
    IF kids = <<>> THEN s
    ELSE RemoveEach(RemoveOne(s, Head(kids)), Tail(kids))

RemoveObject(s, e, recursive) ==
    RemoveOne(IF recursive THEN RemoveEach(s, GetChildObjects(s, e)) ELSE s,
              e)

RECURSIVE Reparent(_, _, _)
Reparent(s, kids, newObject) ==
    IF kids = <<>> THEN s
    ELSE Reparent([s EXCEPT !.parent[Head(kids)] = newObject],
                  Tail(kids), newObject)

\* replaceObject; with an unregistered newName the argument
\* this.objects[newName].name of line 283 throws before any write
ReplaceObject(s, target, newName, initArgs) ==
    IF s.objects[newName] = NoScript THEN s
    ELSE LET s1 == SpawnObject(s, newName, s.parent[target], initArgs)
             newObject == s1.nEnt
         IN  RemoveObject(Reparent(s1, GetChildObjects(s1, target),
                                   newObject),
                          target, FALSE)

\* ---------------------------------------------------------- Board.step
BucketOf(level, nm) ==
    IF \E b \in 1..Len(level) : level[b].name = nm
    THEN CHOOSE b \in 1..Len(level) : level[b].name = nm
    ELSE 0

\* instances[depth][name].push(obj), creating the bucket when absent
PushInstance(inst, s, obj) ==
    LET lv == s.depth[obj] + 1
        level == inst[lv]
        b == BucketOf(level, s.name[obj])
    IN  IF b = 0
        THEN [inst EXCEPT ![lv] =
                 Append(level, [name |-> s.name[obj], objs |-> <<obj>>])]
        ELSE [inst EXCEPT ![lv][b].objs = Append(@, obj)]

RECURSIVE Promote(_, _, _)
Promote(inst, s, queue) ==
    IF queue = <<>> THEN inst
    ELSE Promote(PushInstance(inst, s, Head(queue)), s, Tail(queue))

\* instances[depth][name].splice(instances[depth][name].indexOf(obj), 1)
SpliceInstance(inst, s, obj) ==
    LET lv == s.depth[obj] + 1
        b == BucketOf(inst[lv], s.name[obj])
    IN  [inst EXCEPT ![lv][b].objs = Splice1(@, IndexOf(@, obj))]

RECURSIVE Purge(_, _, _)
Purge(inst, s, queue) ==
    IF queue = <<>> THEN inst
    ELSE Purge(SpliceInstance(inst, s, Head(queue)), s, Tail(queue))

\* the two queue phases of step(), lines 191-205
ApplyQueues(s) ==
    [s EXCEPT !.instances =
                  Purge(Promote(s.instances, s, s.spawnedObjs), s,
                        s.deletedObjs),
              !.spawnedObjs = <<>>, !.deletedObjs = <<>>]

RECURSIVE NextCursor(_, _, _, _)
\* The loop nest of lines 208-214: the first position at or after (i, b, j)
\* that holds an entity, level i running down to 1; <<0, 0, 0>> when the
\* loops are over.  Level i of the model is instances[i - 1] of the code.
NextCursor(inst, i, b, j) ==
    IF i = 0 THEN <<0, 0, 0>>
    ELSE IF b > Len(inst[i]) THEN NextCursor(inst, i - 1, 1, 1)
    ELSE IF j > Len(inst[i][b].objs) THEN NextCursor(inst, i, b + 1, 1)
    ELSE <<i, b, j>>

Current == instances[cursor[1]][cursor[2]].objs[cursor[3]]

\* ---------------------------------------------------------------- Init
\* The state after start() with autoStep off: setup has registered the
\* prototypes, the Board is the root entity, begun and in instances[0].
NoCall == "none"

Init ==
    /\ nEnt = 0
    /\ name = [e \in Ids |-> IF e = Board THEN BoardName ELSE ""]
    /\ depth = [e \in Ids |-> 0]
    /\ parent = [e \in Ids |-> Null]
    /\ ended = [e \in Ids |-> FALSE]
    /\ cycleEnded = [e \in Ids |-> FALSE]
    /\ locked = [e \in Ids |-> FALSE]
    /\ pendingJumpOp = [e \in Ids |-> IF e = Board THEN JumpOp("init", 0)
                                      ELSE NoJump]
    /\ executor = [e \in Ids |-> NoJump]
    /\ groups = [e \in Ids |-> <<>>]
    /\ adoptions = [e \in Ids |-> <<>>]
    /\ script = [e \in Ids |-> NoScript]
    /\ released = <<>>
    /\ objects = [n \in AllNames |-> IF n = "a" THEN 1
                                     ELSE IF n = "b" THEN 2 ELSE NoScript]
    /\ instances = << <<[name |-> BoardName, objs |-> <<Board>>]>> >>
    /\ spawnedObjs = <<>>
    /\ deletedObjs = <<>>
    /\ groupStore = [g \in {} |-> <<>>]
    /\ terminated = FALSE
    /\ pc = "idle"
    /\ cursor = <<0, 0, 0>>
    /\ nunit = 0
    /\ ncmd = 0
    /\ finishCount = 0
    /\ execLog = <<>>
    /\ promoted = {}
    /\ lastCall = NoCall
    /\ termAt = Null

\* ------------------------------------------------------- observations
Allocated == 0..nEnt
SeqSet(seq) == {seq[i] : i \in 1..Len(seq)}

\* The entities of the instance registry.
Registry(inst) ==
    UNION {SeqSet(Flatten(inst[i])) : i \in 1..Len(inst)}

\* The entities that are in the registry or still in the spawn queue.
Live == Registry(instances) \cup SeqSet(spawnedObjs)

Kids(e) == {c \in Live : parent[c] = e /\ c # e}

RECURSIVE DescFrom(_, _)
DescFrom(front, seen) ==
    LET more == UNION {Kids(e) : e \in front} \ seen
    IN  IF more = {} THEN seen ELSE DescFrom(more, seen \cup more)

\* The transitive descendants of e: children, grandchildren, ...
Descendants(e) == DescFrom({e}, {}) \ {e}

\* lastCall names the interface call the last action made.
Call(op, target, rec, new) == op

\* ------------------------------------------------------------ actions
\* A call of the Board/Entity interface comes from the host between two
\* ticks, or from the script of the entity that is executing.
CanCall == pc = "idle" \/ (pc = "unit" /\ ncmd < MaxCmds)

Counted ==
    /\ ncmd' = IF pc = "unit" THEN ncmd + 1 ELSE ncmd
    /\ UNCHANGED <<pc, cursor, nunit, finishCount, execLog, promoted, termAt>>

CallSpawnObject(cap, names) ==
    \E nm \in names \cup {UnknownName}, par \in Allocated \cup {Null} :
        /\ CanCall
        /\ IF objects[nm] # NoScript
           THEN /\ nEnt < cap
                /\ Becomes(SpawnObject(St, nm, par, 0))
                /\ lastCall' = Call("spawn", par, FALSE, nEnt + 1)
           ELSE /\ par = Null
                /\ UNCHANGED <<entVars, boardVars>>
                /\ lastCall' = Call("nospawn", par, FALSE, Null)
        /\ Counted

CallRemoveObject ==
    \E e \in Allocated, recursive \in BOOLEAN :
        /\ CanCall
        /\ Len(deletedObjs)
             + (IF recursive THEN Len(GetChildObjects(St, e)) ELSE 0)
             < MaxDeleted
        /\ Becomes(RemoveObject(St, e, recursive))
        /\ lastCall' = Call("remove", e, recursive, Null)
        /\ Counted

\* The TypeError of replaceObject is followed where this file decides what
\* happens next: in a call of the host.  (From a script it unwinds through
\* Executor.step, which is not part of this file.)
TypeError == "TypeError"

CallReplaceObject(cap, names) ==
    \E target \in Allocated, newName \in names :
        /\ CanCall
        /\ IF objects[newName] = NoScript
           THEN pc = "idle" /\ lastCall' = TypeError
           ELSE /\ nEnt < cap
                /\ Len(deletedObjs) < MaxDeleted
                /\ lastCall' = Call("replace", target, FALSE, nEnt + 1)
        /\ Becomes(ReplaceObject(St, target, newName, 0))
        /\ Counted

CallGotoLabel(labels) ==
    \E e \in Allocated, label \in labels \cup {UnknownLabel}, args \in Args :
        /\ CanCall
        /\ Becomes(GotoLabel(St, e, label, args))
        /\ lastCall' = Call("goto", e, FALSE, Null)
        /\ Counted

\* terminate(); termAt notes where the first call came from: 0 from the
\* host between two ticks, k from the script of the k-th entity executed.
CallTerminate ==
    /\ CanCall
    /\ terminated' = TRUE
    /\ termAt' = IF termAt # Null THEN termAt
                 ELSE IF pc = "idle" THEN 0 ELSE Len(execLog)
    /\ UNCHANGED <<entVars, instances, spawnedObjs, deletedObjs, groupStore,
                   objects>>
    /\ lastCall' = Call("terminate", Null, FALSE, Null)
    /\ ncmd' = IF pc = "unit" THEN ncmd + 1 ELSE ncmd
    /\ UNCHANGED <<pc, cursor, nunit, finishCount, execLog, promoted>>

\* The executing script yields for this tick ("wait a tick").
Yield ==
    /\ pc = "unit" /\ ncmd < MaxCmds
    /\ Becomes([St EXCEPT !.cycleEnded[Current] = TRUE])
    /\ lastCall' = NoCall
    /\ Counted

\* The executing script ends itself.
End ==
    /\ pc = "unit" /\ ncmd < MaxCmds
    /\ Becomes([St EXCEPT !.ended[Current] = TRUE])
    /\ lastCall' = NoCall
    /\ Counted

StepNoTerminatedCheck ==
    /\ pc = "idle"
    /\ lastCall' = Call("step", Null, FALSE, Null)
    /\ LET s == ApplyQueues(St)
       IN  /\ Becomes(s)
           /\ promoted' = SeqSet(spawnedObjs)
           /\ execLog' = <<>>
           /\ cursor' = NextCursor(s.instances, Len(s.instances), 1, 1)
           /\ pc' = "trav"
           /\ UNCHANGED <<nunit, ncmd, finishCount, termAt>>

\* Board.step() up to the first execute(): lines 186-208
Step ==
    /\ pc = "idle"
    /\ lastCall' = Call("step", Null, FALSE, Null)
    /\ IF terminated
       THEN UNCHANGED <<entVars, boardVars, ctlVars, finishCount, execLog,
                        promoted, termAt>>
       ELSE LET s == ApplyQueues(St)
            IN  /\ Becomes(s)
                /\ promoted' = SeqSet(spawnedObjs)
                /\ execLog' = <<>>
                /\ cursor' = NextCursor(s.instances, Len(s.instances), 1, 1)
                /\ pc' = "trav"
                /\ UNCHANGED <<nunit, ncmd, finishCount, termAt>>

Advance == NextCursor(instances, cursor[1], cursor[2], cursor[3] + 1)

\* Entity.execute() up to its first executor.step(): lines 73-86
Execute ==
    /\ pc = "trav" /\ cursor # <<0, 0, 0>>
    /\ Becomes(ExecuteHead(St, Current))
    /\ IF ended[Current]
       THEN cursor' = Advance /\ UNCHANGED <<pc, nunit, ncmd>>
       ELSE pc' = "unit" /\ nunit' = 1 /\ ncmd' = 0 /\ UNCHANGED cursor
    /\ execLog' = Append(execLog, Current)
    /\ lastCall' = NoCall
    /\ UNCHANGED <<finishCount, promoted, termAt>>

\* executor.step() returns, and the loop of lines 86-94 takes it from there
UnitReturn(answers) ==
    \E more \in answers :
        /\ pc = "unit"
        /\ LET e == Current
           IN  IF more /\ ~(cycleEnded[e] \/ ended[e])
               THEN /\ nunit < MaxUnits
                    /\ Becomes(ExecPendingJump(St, e))
                    /\ nunit' = nunit + 1 /\ ncmd' = 0
                    /\ UNCHANGED <<pc, cursor>>
               ELSE /\ UNCHANGED <<entVars, boardVars>>
                    /\ pc' = "trav" /\ cursor' = Advance
                    /\ nunit' = 0 /\ ncmd' = 0
        /\ lastCall' = NoCall
        /\ UNCHANGED <<finishCount, execLog, promoted, termAt>>

\* the end of step(): lines 216-218
FinishStep ==
    /\ pc = "trav" /\ cursor = <<0, 0, 0>>
    /\ finishCount' = IF terminated THEN finishCount + 1 ELSE finishCount
    /\ pc' = "idle"
    /\ lastCall' = NoCall
    /\ UNCHANGED <<entVars, boardVars, cursor, nunit, ncmd, execLog, promoted, termAt>>

Next ==
    \/ CallSpawnObject(MaxTickEnt, {"a"})
    \/ CallRemoveObject
    \/ CallReplaceObject(MaxTickEnt, {"a", UnknownName})
    \/ CallGotoLabel({"go"})
    \/ CallTerminate
    \/ Yield
    \/ End
    \/ Step
    \/ Execute
    \/ UnitReturn(BOOLEAN)
    \/ FinishStep

Spec == Init /\ [][Next]_vars

\* ------------------------------------------------ the structural view
\* The host drives the Board between ticks; every script is empty, so each
\* executor reports at once that its instruction stream is exhausted and a
\* whole step() is one action.
MaxTreeSpawn == 3   \* spawnObject calls of the host (replaceObject adds more)

RECURSIVE RunTraversal(_, _, _)
\* lines 208-214 with exhausted executors: the state and the execute() log
RunTraversal(s, cur, log) ==
    IF cur = <<0, 0, 0>> THEN [s |-> s, log |-> log]
    ELSE LET e == s.instances[cur[1]][cur[2]].objs[cur[3]]
         IN  RunTraversal(ExecuteHead(s, e),
                          NextCursor(s.instances, cur[1], cur[2], cur[3] + 1),
                          Append(log, e))

StepAll ==
    /\ pc = "idle"
    /\ lastCall' = Call("step", Null, FALSE, Null)
    /\ IF terminated
       THEN UNCHANGED <<entVars, boardVars, finishCount, execLog, promoted, termAt>>
       ELSE LET s0 == ApplyQueues(St)
                r == RunTraversal(s0,
                         NextCursor(s0.instances, Len(s0.instances), 1, 1),
                         <<>>)
            IN  /\ Becomes(r.s)
                /\ execLog' = r.log
                /\ promoted' = SeqSet(spawnedObjs)
                /\ finishCount' = IF r.s.terminated THEN finishCount + 1
                                  ELSE finishCount
                /\ UNCHANGED termAt
    /\ UNCHANGED ctlVars

MaxTreeEnt == 3     \* entities in the structural specification

HostSpawnObject == pc = "idle" /\ CallSpawnObject(MaxTreeEnt, {"a"})
HostRemoveObject == pc = "idle" /\ CallRemoveObject
HostReplaceObject == pc = "idle" /\ CallReplaceObject(MaxTreeEnt, {"a"})

NextTree ==
    \/ HostSpawnObject
    \/ HostRemoveObject
    \/ HostReplaceObject
    \/ StepAll

SpecTree == Init /\ [][NextTree]_vars

\* The same with no removeObject call of the host's own: chains of
\* replacements.
HostSpawnOne ==
    /\ pc = "idle" /\ nEnt < MaxTreeSpawn
    /\ CallSpawnObject(MaxEnt, {"a"})
HostReplaceOne == pc = "idle" /\ CallReplaceObject(MaxEnt, {"a"})

NextReplace ==
    \/ HostSpawnOne
    \/ HostReplaceOne
    \/ StepAll

SpecReplace == Init /\ [][NextReplace]_vars

\* The same with two prototypes: the order of the name buckets.
MaxOrderEnt == 4    \* entities in the bucket-order specification

HostSpawnNamed ==
    /\ pc = "idle" /\ nEnt < MaxTreeSpawn
    /\ CallSpawnObject(MaxOrderEnt, ObjectNames)
HostReplaceNamed ==
    pc = "idle" /\ CallReplaceObject(MaxOrderEnt, ObjectNames)

NextOrder ==
    \/ HostSpawnNamed
    \/ HostReplaceNamed
    \/ StepAll

SpecOrder == Init /\ [][NextOrder]_vars

\* ------------------------------------------- spawns made by scripts
\* Scripts that spawn and remove entities while the traversal runs.
MaxSpawnEnt == 2    \* entities in the scripted spawn specification

ScriptSpawnObject == pc = "unit" /\ CallSpawnObject(MaxSpawnEnt, {"a"})
ScriptRemoveObject == pc = "unit" /\ CallRemoveObject

NextSpawn ==
    \/ ScriptSpawnObject
    \/ ScriptRemoveObject
    \/ Step
    \/ Execute
    \/ UnitReturn(BOOLEAN)
    \/ FinishStep

SpecSpawn == Init /\ [][NextSpawn]_vars

\* ---------------------------------------------------- the group view
\* The host's group calls on the Board entity and on spawned entities.
CallDefineGroup ==
    \E g \in GroupNames :
        /\ pc = "idle"
        /\ Becomes(DefineGroup(St, g))
        /\ lastCall' = Call("defineGroup", Null, FALSE, Null)
        /\ UNCHANGED <<ctlVars, finishCount, execLog, promoted, termAt>>

CallAddObjectToGroup ==
    \E g \in GroupNames, e \in Allocated :
        /\ pc = "idle"
        /\ Len(groups[e]) < MaxGroupLen
        /\ Becomes(AddObjectToGroup(St, g, e))
        /\ lastCall' = Call("addObjectToGroup", e, FALSE, Null)
        /\ UNCHANGED <<ctlVars, finishCount, execLog, promoted, termAt>>

CallRemoveObjectFromGroup ==
    \E g \in GroupNames, e \in Allocated :
        /\ pc = "idle"
        /\ Becomes(RemoveObjectFromGroup(St, g, e))
        /\ lastCall' = Call("removeObjectFromGroup", e, FALSE, Null)
        /\ UNCHANGED <<ctlVars, finishCount, execLog, promoted, termAt>>

CallRemoveObjectFromAllGroups ==
    \E e \in Allocated :
        /\ pc = "idle"
        /\ Becomes(RemoveObjectFromAllGroups(St, e))
        /\ lastCall' = Call("removeObjectFromAllGroups", e, FALSE, Null)
        /\ UNCHANGED <<ctlVars, finishCount, execLog, promoted, termAt>>

HostSpawnGrouped == pc = "idle" /\ CallSpawnObject(MaxGroupEnt, {"a"})

MaxGroupDeleted == 1   \* removeObject calls in the group specification

HostRemoveGrouped ==
    pc = "idle" /\ Len(deletedObjs) < MaxGroupDeleted /\ CallRemoveObject

NextGroups ==
    \/ CallDefineGroup
    \/ CallAddObjectToGroup
    \/ CallRemoveObjectFromGroup
    \/ CallRemoveObjectFromAllGroups
    \/ HostSpawnGrouped
    \/ HostRemoveGrouped

SpecGroups == Init /\ [][NextGroups]_vars

\* ------------------------------------------------ the prototype view
\* defineObject(name, script); both of its throws come before any write.
\* (TypeScript callers pass two or three arguments, so "Bad object
\* definition" is not reachable from typed code.)
DuplicateError == "Duplicate object definition"

DefineObjectOverwrite(s, nm, sc) == [s EXCEPT !.objects[nm] = sc]

DefineObject(s, nm, sc) ==
    IF s.objects[nm] # NoScript THEN s
    ELSE [s EXCEPT !.objects[nm] = sc]

CallDefineObject ==
    \E nm \in AllNames, sc \in Scripts :
        /\ pc = "idle"
        /\ Becomes(DefineObject(St, nm, sc))
        /\ lastCall' = IF objects[nm] # NoScript THEN DuplicateError
                       ELSE Call("defineObject", Null, FALSE, Null)
        /\ UNCHANGED <<ctlVars, finishCount, execLog, promoted, termAt>>

MaxDefineEnt == 3   \* entities spawned in the prototype specification

HostSpawnDefined == pc = "idle" /\ CallSpawnObject(MaxDefineEnt, AllNames)

NextDefine ==
    \/ CallDefineObject
    \/ HostSpawnDefined
    \/ StepAll

SpecDefine == Init /\ [][NextDefine]_vars

\* -------------------------------------------------- the removal view
\* A script attaches an adoption (a handle with a release operation) to an
\* entity; removal releases them.
Adopt(s, e, h) == [s EXCEPT !.adoptions[e] = Append(@, h)]

RECURSIVE TotalLen(_, _)
TotalLen(f, n) == IF n < 0 THEN 0 ELSE Len(f[n]) + TotalLen(f, n - 1)

CallAdopt ==
    \E e \in Allocated, h \in Handles :
        /\ pc = "idle"
        /\ TotalLen(adoptions, nEnt) + Len(released) < MaxAdopt
        /\ Becomes(Adopt(St, e, h))
        /\ lastCall' = Call("adopt", e, FALSE, Null)
        /\ UNCHANGED <<ctlVars, finishCount, execLog, promoted, termAt>>

MaxRemovalEnt == 1   \* entities spawned in the removal specification

HostSpawnRemovable == pc = "idle" /\ CallSpawnObject(MaxRemovalEnt, {"a"})

NextRemoval ==
    \/ CallAdopt
    \/ HostSpawnRemovable
    \/ HostRemoveObject
    \/ StepAll

SpecRemoval == Init /\ [][NextRemoval]_vars

\* ==================================================================
\* Properties
\* ==================================================================

\* C2 (as claimed): every entity in the spawn queue or the instance registry
\* has depth 0 if it is its own parent and depth(parent) + 1 otherwise.  The
\* Board, whose parent is null (line 172), is left out.
C2_DepthInvariant ==
    \A e \in Live \ {Board} :
        IF parent[e] = e THEN depth[e] = 0
        ELSE depth[e] = depth[parent[e]] + 1

\* C3 (as claimed): group membership is symmetric: g is in e.groups if and
\* only if e is in the member set of group g.
C3_GroupSymmetry ==
    \A g \in GroupNames, e \in Allocated :
        Contains(groups[e], g)
            <=> (HasGroup(St, g) /\ Contains(groupStore[g], e))

\* C4 (as claimed): removeObject(A, true) leaves A and every transitive
\* descendant of A locked and ended, and removes none of them from the
\* instance registry.
C4_RecursiveRemoval ==
    [][\A e \in Allocated :
          (lastCall' = "remove" /\ Becomes(RemoveObject(St, e, TRUE)))
              => /\ \A d \in Descendants(e) \cup {e} :
                        locked'[d] /\ ended'[d]
                 /\ instances' = instances]_vars

\* C5 (as claimed): replaceObject(T, newName, args) on a child T of a
\* parent P spawns one new entity N under P, makes N the parent of every
\* current child of T, leaves T locked and ended and locks or ends no child.
C5_ReparentOnReplace ==
    [][\A t \in Allocated :
          (/\ lastCall' = "replace"
           /\ parent[t] \notin {t, Null}
           /\ Becomes(ReplaceObject(St, t, "a", 0)))
              => /\ nEnt' = nEnt + 1
                 /\ parent'[nEnt'] = parent[t]
                 /\ locked'[t] /\ ended'[t]
                 /\ \A c \in Kids(t) :
                        /\ parent'[c] = nEnt'
                        /\ locked'[c] = locked[c]
                        /\ ended'[c] = ended[c]]_vars

\* C7 (as claimed): the purge never removes from the registry an entity
\* that was not passed to removeObject.
C7_PurgeOnlyRemoved ==
    [][\A e \in Registry(instances) :
          ~locked[e] => e \in Registry(instances')]_vars

Pos(seq, x) == CHOOSE i \in 1..Len(seq) : seq[i] = x

\* C10 (as claimed): a step executes each registry entity exactly once, in
\* non-increasing depth order, and every child before its parent.
C10_TraversalOrder ==
    lastCall = "step" =>
        /\ SeqSet(execLog) = Registry(instances)
        /\ \A i, j \in 1..Len(execLog) :
               i < j => /\ execLog[i] # execLog[j]
                        /\ depth[execLog[i]] >= depth[execLog[j]]
        /\ \A c \in SeqSet(execLog) :
               (parent[c] \in SeqSet(execLog) /\ parent[c] # c)
                   => Pos(execLog, c) < Pos(execLog, parent[c])

\* C1 (as claimed, for the entities never passed to removeObject): an
\* entity C spawned under R is among getChildObjects(R) right after the
\* call; no traversal executes an entity that is still in the spawn queue;
\* and the step that promotes C calls C.execute() in its traversal.
C1_DeferredVisibility ==
    /\ (lastCall = "spawn" /\ parent[nEnt] # nEnt)
           => Contains(GetChildObjects(St, parent[nEnt]), nEnt)
    /\ \A c \in SeqSet(spawnedObjs) : ~Contains(execLog, c)
    /\ pc = "idle"
           => \A c \in promoted : ~locked[c] => Contains(execLog, c)

\* C6: when terminate() is first called by the script of an entity during
\* a traversal, every entity of the registry is still executed in that
\* tick, the finish callback runs exactly once and only when the traversal
\* is over, and every later step() call changes nothing.
C6_TerminationTiming ==
    /\ [](finishCount <= 1)
    /\ [](pc # "idle" => finishCount = 0)
    /\ []((termAt >= 1 /\ pc = "idle")
              => /\ finishCount = 1
                 /\ SeqSet(execLog) = Registry(instances)
                 /\ \A i, j \in 1..Len(execLog) :
                        i # j => execLog[i] # execLog[j])
    /\ [][(lastCall' = "step" /\ terminated)
              => UNCHANGED <<entVars, boardVars, ctlVars, finishCount,
                             execLog, promoted, termAt>>]_vars

\* The first of two entities terminated the Board, the second still
\* executed, finish ran once and a later step() was called.
C6_Witness ==
    /\ pc = "idle" /\ termAt = 1 /\ Len(execLog) = 2
    /\ finishCount = 1 /\ lastCall = "step"

\* C8: locked implies ended; a locked entity stays locked and ended and
\* its pending jump request is never changed.
C8_LockInvariant ==
    /\ [](\A e \in Ids : locked[e] => ended[e])
    /\ [][\A e \in Ids :
             locked[e] => /\ locked'[e] /\ ended'[e]
                          /\ pendingJumpOp'[e] = pendingJumpOp[e]]_vars

\* The Board was removed with its init jump pending, execute() was called
\* on it and gotoLabel was called after that.
C8_Witness ==
    /\ locked[Board] /\ Contains(execLog, Board)
    /\ pendingJumpOp[Board] = JumpOp("init", 0)
    /\ lastCall = "goto"

InExecuteOf(e) ==
    /\ pc \in {"trav", "unit"}
    /\ cursor # <<0, 0, 0>>
    /\ Current = e
    /\ lastCall' = NoCall

C11_DuplicateRegistration ==
    [][/\ lastCall' = DuplicateError
           => UNCHANGED <<entVars, boardVars, ctlVars>>
       /\ \A nm \in AllNames, sc \in Scripts :
              (lastCall' \in {DuplicateError, "defineObject"}
                   /\ Becomes(DefineObject(St, nm, sc)))
                  => (lastCall' = DuplicateError <=> objects[nm] # NoScript)
       /\ \A nm \in AllNames :
              objects[nm] # NoScript => objects'[nm] = objects[nm]
       /\ lastCall' = "spawn"
           => /\ nEnt' = nEnt + 1
              /\ script'[nEnt'] = objects[name'[nEnt']]
              /\ script'[nEnt'] # NoScript]_vars

\* A second defineObject("zz", ...) was refused after "zz" was registered
\* at run time with script 2 and an entity was spawned from it.
C11_Witness ==
    /\ lastCall = DuplicateError
    /\ objects[UnknownName] = 2
    /\ \E e \in 1..nEnt : name[e] = UnknownName /\ script[e] = 2

\* C12: gotoLabel on a locked entity, or with a label the executor does not
\* report as enabled, changes nothing; otherwise it stages the jump and
\* clears ended and cycleEnded.
C12_GotoLabelNoOp ==
    [][\A e \in Allocated, label \in Labels \cup {UnknownLabel},
          args \in Args :
          (lastCall' = "goto" /\ Becomes(GotoLabel(St, e, label, args)))
              => IF locked[e] \/ label \notin Labels
                 THEN UNCHANGED <<entVars, boardVars>>
                 ELSE /\ pendingJumpOp'[e] = JumpOp(label, args)
                      /\ ~ended'[e] /\ ~cycleEnded'[e] /\ ~locked'[e]
                      /\ \A x \in Ids \ {e} :
                             /\ pendingJumpOp'[x] = pendingJumpOp[x]
                             /\ ended'[x] = ended[x]
                             /\ cycleEnded'[x] = cycleEnded[x]]_vars

\* gotoLabel has just staged "go" on the Board, while the removed entity 1
\* still holds the init jump it was spawned with.
C12_Witness ==
    /\ lastCall = "goto"
    /\ pendingJumpOp[Board] = JumpOp("go", 0) /\ ~ended[Board]
    /\ nEnt = 1 /\ locked[1] /\ pendingJumpOp[1] = JumpOp("init", 0)

\* C13 (as claimed): no call made after setup raises an error; a call with
\* an unregistered prototype name is skipped.
C13_NoRuntimeErrors == lastCall # TypeError

\* C14 (as claimed): the finish callback is never invoked before
\* terminate(), at most once over the run, and it has been invoked once
\* when a step() call that ran at or after terminate() has returned (here:
\* a step() call that found the Board terminated).
C14_FinishOnTermination ==
    /\ finishCount > 0 => terminated
    /\ finishCount <= 1
    /\ (pc = "idle" /\ lastCall = "step" /\ terminated) => finishCount = 1

\* C15 (as claimed): when execute() returns because the executor reported
\* no more work (the loop is left with the entity neither yielded nor
\* ended), the entity has ended = true.
C15_NaturalEnd ==
    [][(/\ pc = "unit" /\ pc' = "trav"
        /\ ~cycleEnded[Current] /\ ~ended[Current])
           => ended'[Current]]_vars

IsSuffix(suf, seq) ==
    /\ Len(suf) <= Len(seq)
    /\ SubSeq(seq, Len(seq) - Len(suf) + 1, Len(seq)) = suf

\* C16: removeObject(e) at once locks and ends e, releases its adoptions in
\* insertion order and empties the list, and appends e to deletedObjs (a
\* recursive call does the same to the children first); the
\* registry and the spawn queue stay as they are (so e stays a child of its
\* parent for getChildObjects) until the next step() that is not
\* terminated, after whose promotion and purge e is in neither the
\* registry nor a queue.
C16_SplitRemoval ==
    [][/\ \A e \in Allocated, r \in BOOLEAN :
              (lastCall' = "remove" /\ Becomes(RemoveObject(St, e, r)))
                  => /\ locked'[e] /\ ended'[e] /\ cycleEnded'[e]
                     /\ adoptions'[e] = <<>>
                     /\ Len(released') >= Len(released) + Len(adoptions[e])
                     /\ SubSeq(released', 1, Len(released)) = released
                     /\ ~r => /\ released' = released \o adoptions[e]
                              /\ deletedObjs' = Append(deletedObjs, e)
                     /\ IsSuffix(<<e>>, deletedObjs')
                     /\ SubSeq(deletedObjs', 1, Len(deletedObjs))
                            = deletedObjs
                     /\ instances' = instances
                     /\ spawnedObjs' = spawnedObjs
                     /\ \A p \in Allocated :
                            Contains(GetChildObjects(St, p), e)
                                => Contains(GetChildObjects(St', p), e)
       /\ lastCall' # "step"
              => Registry(instances') = Registry(instances)
       /\ (lastCall' = "step" /\ ~terminated)
              => \A e \in SeqSet(deletedObjs) :
                     /\ e \notin Registry(instances')
                     /\ e \notin SeqSet(spawnedObjs')
                     /\ e \notin SeqSet(deletedObjs')]_vars

\* Entity 1, promoted into the registry, has just been removed: its two
\* adoptions were released in insertion order and it waits in deletedObjs.
C16_Witness ==
    /\ lastCall = "remove" /\ released = <<2, 1>>
    /\ locked[1] /\ 1 \in Registry(instances) /\ deletedObjs = <<1>>

\* C17 (as claimed): after removeObject(e), e.groups is empty and no
\* defined group has e as a member.
C17_RemovalStripsGroups ==
    [][\A e \in Allocated, r \in BOOLEAN :
          (lastCall' = "remove" /\ Becomes(RemoveObject(St, e, r)))
              => /\ groups'[e] = <<>>
                 /\ \A g \in DOMAIN groupStore' :
                        ~Contains(groupStore'[g], e)]_vars

\* C18: the pending slot of an entity holds one request or none; a
\* successful gotoLabel puts its own request there whatever was pending,
\* without applying the request it discards; what is applied to the
\* executor is what the slot holds at that moment, and the slot is empty
\* afterwards.
C18_LastRequestWins ==
    [][\A e \in Allocated :
          /\ pendingJumpOp'[e] \in
                 {NoJump} \cup {JumpOp(l, a) : l \in Labels, a \in Args}
          /\ \A label \in Labels, args \in Args :
                 (lastCall' = "goto" /\ ~locked[e]
                      /\ Becomes(GotoLabel(St, e, label, args)))
                     => /\ pendingJumpOp'[e] = JumpOp(label, args)
                        /\ executor'[e] = executor[e]
          /\ executor'[e] # executor[e]
                 => /\ pendingJumpOp[e] # NoJump
                    /\ executor'[e] = pendingJumpOp[e]
                    /\ pendingJumpOp'[e] = NoJump]_vars

\* Entity 1 is in the first unit of work of its first execute() and its
\* executor sits at "go": the init request staged by spawnObject was
\* replaced by a later gotoLabel before it was ever applied.
C18_Witness ==
    /\ pc = "unit" /\ nunit = 1 /\ ncmd = 0
    /\ Current = 1 /\ 1 \in promoted
    /\ executor[1] = JumpOp("go", 0) /\ pendingJumpOp[1] = NoJump

\* C19: no jump is applied to the executor of a removed entity, and no unit
\* of work is started for one: neither by the execute() calls of the
\* current and later ticks, nor after the unit of work in which the entity
\* removed itself.
C19_RemovedDoesNoWork ==
    [][/\ \A e \in Allocated : locked[e] => executor'[e] = executor[e]
       /\ (pc' = "unit" /\ (pc = "trav" \/ nunit' # nunit))
              => ~locked[Current] /\ ~locked'[Current]]_vars

\* Entity 1 was removed by the Board's script before its first execute():
\* execute() was called on it, its init request is still pending, its
\* executor untouched, and gotoLabel was called after that.
C19_Witness ==
    /\ pc = "idle" /\ lastCall = "goto"
    /\ locked[1] /\ Contains(execLog, 1)
    /\ pendingJumpOp[1] = JumpOp("init", 0) /\ executor[1] = NoJump

====
